---- MODULE Spec2Model ----
(***************************************************************************)
(* State-machine model of src/app.py (lora-image-cropper): the main window *)
(* ImageProcessor with its crop box (DraggableRectItem + ResizeHandle),    *)
(* the size selector, image loading (dialog and drag-and-drop) and the     *)
(* crop-and-save pathway with its suggested filename.                      *)
(*                                                                         *)
(* Strings that the program takes apart (filenames, paths) are modelled as *)
(* sequences of one-character strings, so that re.match, str.split, int,   *)
(* str and zfill are computed the way Python computes them.                *)
(* All coordinates are integers (pixels).                                  *)
(***************************************************************************)
EXTENDS Integers, Sequences, FiniteSets, TLC

VARIABLES running, image, image_width, image_height, box,
          suggested_filename, message_label, event, drags, saves

vars == <<running, image, image_width, image_height, box,
          suggested_filename, message_label, event, drags, saves>>

\* Python's None (self.image, self.box before any load).
None == [none |-> TRUE]

----------------------------------------------------------------------------
\* Bounds of the exploration.
MaxDrags == 2   \* mouse-move events (box drags and handle drags) per session
MaxSaves == 2   \* times the save button runs the crop-and-save body
MaxUrls == 2    \* URLs carried by one drop event

----------------------------------------------------------------------------
\* Characters and Python string primitives.

Digits == {"0", "1", "2", "3", "4", "5", "6", "7", "8", "9"}

Letters == {"a", "b", "c", "d", "e", "f", "g", "h", "i", "j", "k", "l", "m",
            "n", "o", "p", "q", "r", "s", "t", "u", "v", "w", "x", "y", "z"}

\* The regular expression class \w.
WordChars == Letters \cup Digits \cup {"_"}

DigitVal(c) ==
    CASE c = "0" -> 0 [] c = "1" -> 1 [] c = "2" -> 2 [] c = "3" -> 3
      [] c = "4" -> 4 [] c = "5" -> 5 [] c = "6" -> 6 [] c = "7" -> 7
      [] c = "8" -> 8 [] c = "9" -> 9

DigitChar(d) ==
    CASE d = 0 -> "0" [] d = 1 -> "1" [] d = 2 -> "2" [] d = 3 -> "3"
      [] d = 4 -> "4" [] d = 5 -> "5" [] d = 6 -> "6" [] d = 7 -> "7"
      [] d = 8 -> "8" [] d = 9 -> "9"

\* re.match(r"\w+_\d{3}.jpg", s): anchored at the start only, "." matches any
\* character but a newline, and anything may follow the match.
ReMatch(s) ==
    \E i \in 1..Len(s) :
        /\ \A k \in 1..i : s[k] \in WordChars
        /\ Len(s) >= i + 8
        /\ s[i + 1] = "_"
        /\ \A k \in (i + 2)..(i + 4) : s[k] \in Digits
        /\ s[i + 5] # "\n"
        /\ s[i + 6] = "j" /\ s[i + 7] = "p" /\ s[i + 8] = "g"

\* s.split(c): the list of the pieces of s between the occurrences of c.
RECURSIVE PySplit(_, _)
PySplit(s, c) ==
    IF \A k \in 1..Len(s) : s[k] # c
    THEN <<s>>
    ELSE LET i == CHOOSE k \in 1..Len(s) :
                      s[k] = c /\ \A m \in 1..(k - 1) : s[m] # c
         IN <<SubSeq(s, 1, i - 1)>> \o PySplit(SubSeq(s, i + 1, Len(s)), c)

\* int(t) succeeds on a non-empty string of decimal digits; on anything else
\* written with the characters used here it raises ValueError.
PyIntOk(t) == Len(t) > 0 /\ \A k \in 1..Len(t) : t[k] \in Digits

RECURSIVE PyInt(_)
PyInt(t) ==
    IF Len(t) = 0 THEN 0
    ELSE 10 * PyInt(SubSeq(t, 1, Len(t) - 1)) + DigitVal(t[Len(t)])

\* str(n) for n >= 0.
RECURSIVE PyStr(_)
PyStr(n) ==
    IF n < 10 THEN <<DigitChar(n)>>
    ELSE PyStr(n \div 10) \o <<DigitChar(n % 10)>>

\* t.zfill(width): zeros on the left up to the width, never a truncation.
RECURSIVE ZFill(_, _)
ZFill(t, width) == IF Len(t) >= width THEN t ELSE ZFill(<<"0">> \o t, width)

----------------------------------------------------------------------------
\* Program constants.
DefaultSide == 1024  \* self.image_width = self.image_height = 1024
HandleSide == 40     \* ResizeHandle: setRect(-40, -40, 40, 40)
PenWidth == 20       \* box_pen.setWidth(20)
CounterWidth == 3    \* .zfill(3)

\* The seed self.suggested_filename = "image_000.jpg".
SeedFilename == <<"i", "m", "a", "g", "e", "_", "0", "0", "0", ".", "j", "p", "g">>

\* The items of size_combo_box.
ComboItems == {"512 x 512", "1024 x 1024", "2048 x 2048"}

----------------------------------------------------------------------------
\* The environment: files the user can open or drop, pointer positions,
\* names the user can type in the save dialog.

\* Local files with the pixel size QImage decodes from them; a file that is
\* no image decodes to the null QImage, 0 x 0.
FileSizes == [square_png |-> <<1024, 1024>>,
              photo_bmp  |-> <<801, 601>>,
              notes_txt  |-> <<0, 0>>]

FilePaths == DOMAIN FileSizes

\* What QFileDialog.getOpenFileName returns: a path, or "" when cancelled.
OpenDialogAnswers == FilePaths \cup {""}

\* url.toLocalFile() of the URLs of a drop: files dragged from a file manager.
DropUrls == {"square_png", "photo_bmp"}

\* Deltas of one mouse drag of the box, in scene coordinates.
MoveDeltas == {<<-300, 120>>}

\* event.scenePos() of a mouse move on the handle; the pointer is grabbed
\* during a drag, so it may leave the scene rectangle on any side.
Pointers == {<<700, 650>>, <<300, 420>>, <<-50, -30>>}

\* The directory the save dialog opens in.
Cwd == <<"/", "d">>

JpgExt == <<".", "j", "p", "g">>

\* Names the user may type in the save dialog instead of the proposed one.
UserNames == { <<"p", "h", "o", "t", "o">> \o JpgExt,
               <<"a", "_", "9", "9", "9">> \o JpgExt,
               <<"a", "_", "b", "_", "0", "0", "1">> \o JpgExt,
               <<"a", "_", "0", "0", "1", "_", "0", "0", "2">> \o JpgExt }

----------------------------------------------------------------------------
\* Qt value types.

\* C++ integer division by two, truncating toward zero.
TruncHalf(n) == IF n >= 0 THEN n \div 2 ELSE -((-n) \div 2)

Max(a, b) == IF a >= b THEN a ELSE b

\* QImage(file_path).
QImage(file_path) ==
    [file |-> file_path,
     width |-> FileSizes[file_path][1],
     height |-> FileSizes[file_path][2]]

\* QRect(0, 0, w, h).center(): ((x1 + x2) / 2, (y1 + y2) / 2) with
\* x2 = x1 + w - 1 and y2 = y1 + h - 1, in integer arithmetic.
RectCenter(w, h) == <<TruncHalf(w - 1), TruncHalf(h - 1)>>

\* QGraphicsRectItem.boundingRect(): the rect grown by half the pen width on
\* every side.
boundingRect(bx) ==
    LET halfpw == PenWidth \div 2
    IN [x |-> bx.rect.x - halfpw, y |-> bx.rect.y - halfpw,
        w |-> bx.rect.w + 2 * halfpw, h |-> bx.rect.h + 2 * halfpw]

----------------------------------------------------------------------------
\* Crop box.

\* BoxPos with the halving of the box size forgotten.
BoxPosUnhalved(img, box_width, box_height) ==
    LET c == RectCenter(img.width, img.height)
    IN <<c[1] - box_width, c[2] - box_height>>

\* draw_image: the position of a new box, image_rect.center() minus half the
\* box size.
BoxPos(img, box_width, box_height) ==
    LET c == RectCenter(img.width, img.height)
    IN <<c[1] - box_width \div 2, c[2] - box_height \div 2>>

\* draw_image with draw_box=True and an image: DraggableRectItem(QRectF(0, 0,
\* box_width, box_height)) with its ResizeHandle at the rect's bottom-right.
NewBox(img, box_width, box_height) ==
    [pos |-> BoxPos(img, box_width, box_height),
     rect |-> [x |-> 0, y |-> 0, w |-> box_width, h |-> box_height],
     handle |-> <<box_width, box_height>>]

\* draw_image(): self.box afterwards; nothing happens while no image is set.
draw_image(img, bx, box_width, box_height) ==
    IF img = None THEN bx ELSE NewBox(img, box_width, box_height)

\* ResizedRect with each side grown by its own axis' distance.
ResizedRectPerAxis(parent_rect, px, py) ==
    LET dx == px - parent_rect.x - parent_rect.w + HandleSide \div 2
        dy == py - parent_rect.y - parent_rect.h + HandleSide \div 2
    IN [x |-> parent_rect.x, y |-> parent_rect.y,
        w |-> dx + parent_rect.w, h |-> dy + parent_rect.h]

\* ResizeHandle.mouseMoveEvent on the selected handle with the pointer at
\* scene position (px, py): the parent's rect afterwards.
ResizedRect(parent_rect, px, py) ==
    LET dx == px - parent_rect.x - parent_rect.w + HandleSide \div 2
        dy == py - parent_rect.y - parent_rect.h + HandleSide \div 2
        new_size == Max(dx, dy)
        new_width == new_size + parent_rect.w
        new_height == new_size + parent_rect.h
    IN [x |-> parent_rect.x, y |-> parent_rect.y,
        w |-> new_width, h |-> new_height]

----------------------------------------------------------------------------
\* Filenames.

\* The right-hand side of the assignment in save_image when the pattern
\* matches: split("_")[0], "_", str(int(split("_")[1].split(".")[0]) + 1)
\* .zfill(3), ".jpg".
CounterText(s) == PySplit(PySplit(s, "_")[2], ".")[1]

IncrementRaises(s) == ~PyIntOk(CounterText(s))

Incremented(s) ==
    PySplit(s, "_")[1] \o <<"_">>
        \o ZFill(PyStr(PyInt(CounterText(s)) + 1), CounterWidth) \o JpgExt

\* file_path.split("/")[-1]
Basename(file_path) ==
    LET parts == PySplit(file_path, "/") IN parts[Len(parts)]

\* What QFileDialog.getSaveFileName can return when it proposes `proposed`:
\* "" when cancelled, else the path of the accepted or typed name.
SavePath(name) == Cwd \o <<"/">> \o name

SaveDialogAnswers(proposed) ==
    {<<>>, SavePath(proposed)} \cup {SavePath(n) : n \in UserNames}

----------------------------------------------------------------------------
\* The state machine.  `event` records the handler that ran last, the part
\* of its input that the properties below read (the first URL of a drop, the
\* pointer of a handle drag, whether the save dialog's proposal was accepted)
\* and its outcome, which for a save includes the rectangle copied out of
\* the image and whether the JPEG write succeeded.  `drags` and `saves`
\* count the handlers the bounds cap.

NoEvent ==
    [op |-> "init", outcome |-> "done", url1 |-> "",
     point |-> <<0, 0>>, crop |-> <<0, 0, 0, 0>>, accepted |-> FALSE]

Event(op, outcome) == [NoEvent EXCEPT !.op = op, !.outcome = outcome]

\* ImageProcessor.__init__
Init ==
    /\ running = TRUE
    /\ image = None
    /\ image_width = DefaultSide
    /\ image_height = DefaultSide
    /\ box = None
    /\ suggested_filename = SeedFilename
    /\ message_label = ""
    /\ event = NoEvent
    /\ drags = 0
    /\ saves = 0

\* load_image(file_path) as a function of the state it changes: the file
\* dialog answers `pick` when no path is given; a non-empty path replaces the
\* image and redraws.
LoadInto(st, file_path, pick, box_width, box_height) ==
    LET chosen == IF file_path = "" THEN pick ELSE file_path
    IN IF chosen # ""
       THEN [image |-> QImage(chosen),
             box |-> draw_image(QImage(chosen), st.box, box_width, box_height)]
       ELSE st

\* load_image() from the Load button or from a click on the empty canvas:
\* no path is passed, the open dialog is shown.
load_image ==
    /\ running
    /\ \E pick \in OpenDialogAnswers :
        LET st == LoadInto([image |-> image, box |-> box], "", pick,
                           image_width, image_height)
        IN /\ image' = st.image
           /\ box' = st.box
           /\ event' = Event("load_image",
                             IF pick = "" THEN "cancelled" ELSE "drawn")
    /\ UNCHANGED <<running, image_width, image_height, suggested_filename,
                   message_label, drags, saves>>

\* dropEvent: for url in urls: self.load_image(url.toLocalFile()).
RECURSIVE DropLoop(_, _, _, _, _)
DropLoop(st, urls, picks, box_width, box_height) ==
    IF urls = <<>> THEN st
    ELSE DropLoop(LoadInto(st, Head(urls), Head(picks), box_width, box_height),
                  Tail(urls), Tail(picks), box_width, box_height)

\* The URL lists a drop can carry, and for each the answers of the open
\* dialogs that the non-local URLs bring up.
UrlLists == UNION {[1..n -> DropUrls] : n \in 1..MaxUrls}

PickLists(urls) ==
    {picks \in [1..Len(urls) -> OpenDialogAnswers] :
        \A i \in 1..Len(urls) : urls[i] # "" => picks[i] = ""}

dropEvent ==
    /\ running
    /\ \E urls \in UrlLists : \E picks \in PickLists(urls) :
        LET st0 == [image |-> image, box |-> box]
            st == DropLoop(st0, urls, picks, image_width, image_height)
            loaded == \E i \in 1..Len(urls) : urls[i] # "" \/ picks[i] # ""
        IN /\ image' = st.image
           /\ box' = st.box
           /\ event' = [Event("dropEvent",
                                   IF loaded THEN "drawn" ELSE "cancelled")
                                EXCEPT !.url1 = urls[1]]
    /\ UNCHANGED <<running, image_width, image_height, suggested_filename,
                   message_label, drags, saves>>

\* set_image_size: the if/elif chain over the size text.
SideOf(size) ==
    CASE size = "512 x 512" -> 512
      [] size = "1024 x 1024" -> 1024
      [] size = "2048 x 2048" -> 2048

\* set_image_size(size), the slot of size_combo_box.currentTextChanged: it
\* runs when the selection changes to another item.
set_image_size ==
    /\ running
    /\ \E size \in ComboItems :
        /\ SideOf(size) # image_width
        /\ image_width' = SideOf(size)
        /\ image_height' = SideOf(size)
        /\ box' = draw_image(image, box, SideOf(size), SideOf(size))
        /\ event' = Event("set_image_size",
                          IF image = None THEN "no_image" ELSE "drawn")
    /\ UNCHANGED <<running, image, suggested_filename, message_label,
                   drags, saves>>

\* DraggableRectItem.mouseMoveEvent: the ItemIsMovable default moves the item
\* by the pointer's delta.
move ==
    /\ running
    /\ box # None
    /\ drags < MaxDrags
    /\ \E d \in MoveDeltas :
        /\ box' = [box EXCEPT !.pos = <<box.pos[1] + d[1], box.pos[2] + d[2]>>]
        /\ event' = Event("move", "done")
    /\ drags' = drags + 1
    /\ UNCHANGED <<running, image, image_width, image_height,
                   suggested_filename, message_label, saves>>

\* ResizeHandle.mouseMoveEvent with the handle selected.
resize ==
    /\ running
    /\ box # None
    /\ drags < MaxDrags
    /\ \E p \in Pointers :
        LET r == ResizedRect(box.rect, p[1], p[2])
        IN /\ box' = [box EXCEPT !.rect = r,
                                 !.handle = <<r.x + r.w, r.y + r.h>>]
           /\ event' = [Event("resize", "done") EXCEPT !.point = p]
    /\ drags' = drags + 1
    /\ UNCHANGED <<running, image, image_width, image_height,
                   suggested_filename, message_label, saves>>

----------------------------------------------------------------------------
\* save_image.

\* if self.image and self.box: neither QImage nor the graphics item defines a
\* truth value, so each is true exactly when it is not None.
SaveGuard(img, bx) == img # None /\ bx # None

\* box_rect = self.box.boundingRect(); box_rect.translate(self.box.pos());
\* self.image.copy(box_rect.toRect()): the rectangle copied out of the image.
CropRect(bx) ==
    LET b == boundingRect(bx)
    IN <<b.x + bx.pos[1], b.y + bx.pos[2], b.w, b.h>>

SaveEvent(outcome, accepted) ==
    [Event("save_image", outcome)
        EXCEPT !.crop = CropRect(box), !.accepted = accepted]

\* The guard is false: the handler returns at once.
SaveNoop ==
    /\ event' = Event("save_image", "noop")
    /\ UNCHANGED <<running, image, image_width, image_height, box,
                   suggested_filename, message_label, drags, saves>>

\* int() raises ValueError inside the increment: the exception leaves the
\* slot before the dialog is shown, and PyQt6 ends the application.
SaveRaises ==
    /\ ReMatch(suggested_filename)
    /\ IncrementRaises(suggested_filename)
    /\ running' = FALSE
    /\ event' = SaveEvent("raised", FALSE)
    /\ UNCHANGED <<image, image_width, image_height, box, suggested_filename,
                   message_label, drags>>

\* The filename the dialog proposes: incremented first when it matches.
Proposed(s) == IF ReMatch(s) THEN Incremented(s) ELSE s

\* The dialog is cancelled (empty path): the increment stays.
SaveCancelled ==
    /\ ~(ReMatch(suggested_filename) /\ IncrementRaises(suggested_filename))
    /\ suggested_filename' = Proposed(suggested_filename)
    /\ event' = SaveEvent("cancelled", FALSE)
    /\ UNCHANGED <<running, image, image_width, image_height, box,
                   message_label, drags>>

\* A path comes back: scaled(...), save(file_path, "JPEG") whose boolean
\* result is dropped, setText("Saved!"), and the basename is kept.
SaveToPath ==
    /\ ~(ReMatch(suggested_filename) /\ IncrementRaises(suggested_filename))
    /\ \E file_path \in SaveDialogAnswers(Proposed(suggested_filename)) \ {<<>>} :
       \E written \in BOOLEAN :
        /\ message_label' = "Saved!"
        /\ suggested_filename' = Basename(file_path)
        /\ event' = SaveEvent(IF written THEN "saved" ELSE "write_failed",
                              file_path = SavePath(Proposed(suggested_filename)))
    /\ UNCHANGED <<running, image, image_width, image_height, box, drags>>

SaveBody ==
    /\ saves < MaxSaves
    /\ saves' = saves + 1
    /\ (SaveRaises \/ SaveCancelled \/ SaveToPath)

\* save_image with the filename increment hoisted above the guard.
save_image_hoisted ==
    /\ running
    /\ IF SaveGuard(image, box)
       THEN SaveBody
       ELSE /\ suggested_filename' = Proposed(suggested_filename)
            /\ event' = Event("save_image", "noop")
            /\ UNCHANGED <<running, image, image_width, image_height, box,
                           message_label, drags, saves>>

save_image ==
    /\ running
    /\ IF SaveGuard(image, box) THEN SaveBody ELSE SaveNoop

----------------------------------------------------------------------------
Next ==
    \/ load_image
    \/ dropEvent
    \/ set_image_size
    \/ move
    \/ resize
    \/ save_image

Spec == Init /\ [][Next]_vars

----------------------------------------------------------------------------
\* Properties.

\* The box in image coordinates: the item's position plus its rect's origin.
BoxX(bx) == bx.pos[1] + bx.rect.x
BoxY(bx) == bx.pos[2] + bx.rect.y

\* A filename of the form name_NNN.jpg: a non-empty name of word characters
\* (underscores included), an underscore, three digits and ".jpg".
NamePattern(s) ==
    /\ Len(s) >= 9
    /\ \A k \in 1..(Len(s) - 8) : s[k] \in WordChars
    /\ s[Len(s) - 7] = "_"
    /\ \A k \in (Len(s) - 6)..(Len(s) - 4) : s[k] \in Digits
    /\ SubSeq(s, Len(s) - 3, Len(s)) = JpgExt

\* name_(NNN+1).jpg, the counter zero-padded to three digits.
NameNext(s) ==
    SubSeq(s, 1, Len(s) - 8) \o <<"_">>
        \o ZFill(PyStr(PyInt(SubSeq(s, Len(s) - 6, Len(s) - 4)) + 1), CounterWidth)
        \o JpgExt

\* C1: a successful save in which the user accepts the proposed name turns a
\* suggested filename name_NNN.jpg into name_(NNN+1).jpg, and leaves a
\* suggested filename that does not match the pattern unchanged.
C1_FilenameIncrement ==
    [][(/\ event'.op = "save_image"
        /\ saves' = saves + 1
        /\ event'.outcome = "saved"
        /\ event'.accepted)
       => suggested_filename' =
              IF NamePattern(suggested_filename)
              THEN NameNext(suggested_filename)
              ELSE suggested_filename]_vars

\* C2: only a save that writes a file advances the suggested filename: every
\* other step, a cancelled save dialog included, leaves it as it was.
C2_AdvancedOnlyBySave ==
    [][~(/\ event'.op = "save_image"
         /\ saves' = saves + 1
         /\ event'.outcome = "saved")
       => suggested_filename' = suggested_filename]_vars

\* C3: whenever a crop box exists its width equals its height.
C3_BoxSquare == box # None => box.rect.w = box.rect.h

\* C3 witness: a handle drag has just shrunk an existing box.
C3_Witness ==
    /\ box # None
    /\ event.op = "resize"
    /\ box.rect.w < image_width

\* C4: right after a size selection or a load that redraws, the box has the
\* current target side and sits at the image centre minus half the side, to
\* within one unit (compared doubled, so that halves stay integers).
C4_ResetCentered ==
    (event.op \in {"set_image_size", "load_image", "dropEvent"}
        /\ event.outcome = "drawn")
    => /\ box # None
       /\ box.rect.w = image_width
       /\ box.rect.h = image_width
       /\ 2 * BoxX(box) - (image.width - image_width) \in -2..2
       /\ 2 * BoxY(box) - (image.height - image_width) \in -2..2

\* C4 witness: a size selection redrew the box after earlier drags.
C4_Witness ==
    /\ event.op = "set_image_size"
    /\ event.outcome = "drawn"
    /\ drags > 0

\* C5: save_image with no image or no box changes nothing: no dialog, no
\* write, no exception, and image, box, target, filename and status stay.
C5_SaveWithoutImageIsNoop ==
    [][(event'.op = "save_image" /\ ~(image # None /\ box # None))
       => /\ event'.outcome = "noop"
          /\ UNCHANGED <<running, image, image_width, image_height, box,
                         suggested_filename, message_label, saves>>]_vars

\* C5 witness: the save handler has run with no image loaded.
C5_Witness ==
    /\ event.op = "save_image"
    /\ event.outcome = "noop"
    /\ image = None

\* C6: after a drop the loaded image is the one of the first dropped URL.
C6_FirstUrlWins ==
    event.op = "dropEvent" => image = QImage(event.url1)

\* C7: a save whose JPEG write fails does not set the status to "Saved!".
C7_SavedOnlyOnSuccess ==
    [][(/\ event'.op = "save_image"
        /\ saves' = saves + 1
        /\ event'.outcome = "write_failed")
       => message_label' = message_label]_vars

\* C8: one corner-resize step with the pointer at (px, py) sets both sides to
\* side + max(dx, dy), dx = px - box.x - box.width, dy = py - box.y -
\* box.height, box.x and box.y in image coordinates, no further offset.
C8_ResizeFormula ==
    [][(event'.op = "resize" /\ drags' = drags + 1)
       => LET dx == event'.point[1] - BoxX(box) - box.rect.w
              dy == event'.point[2] - BoxY(box) - box.rect.h
          IN /\ box'.rect.w = box.rect.w + Max(dx, dy)
             /\ box'.rect.h = box.rect.h + Max(dx, dy)]_vars

\* C9: whenever a crop box exists its side is strictly positive.
C9_SidePositive == box # None => (box.rect.w > 0 /\ box.rect.h > 0)

\* C10: the rectangle a save copies out of the image is the box's
\* (x, y, side, side) in image coordinates, nothing added or removed.
C10_CropIsBox ==
    (event.op = "save_image" /\ event.outcome = "saved")
    => event.crop = <<BoxX(box), BoxY(box), box.rect.w, box.rect.h>>

====
